---- MODULE Spec2Model ----
(***************************************************************************)
(* A model of l10n/ai_translate.py: main() as a state machine.  One run    *)
(* of the script is one behaviour.  The command line is taken as parsed    *)
(* (the three flags are required by argparse); the environment, the input  *)
(* catalog, the outcome of every external call (polib, the chat API, the   *)
(* file system) are inputs chosen nondeterministically.                    *)
(*                                                                         *)
(* Python values that cross the JSON boundary are records tagged by kind,  *)
(* so that the dynamic checks of the code ('in', indexing, isinstance,     *)
(* len) can be computed as Python computes them.                           *)
(***************************************************************************)
EXTENDS Integers, Sequences, FiniteSets, TLC

VARIABLES
    pc,               \* position of main()
    api_key,          \* os.getenv("OPENAI_API_KEY")
    language,         \* args.language
    entries,          \* entries_to_translate (the POEntry objects of po_file)
    metadata,         \* po_file.metadata
    source_texts,     \* the batch of msgids
    response_content, \* the body returned by the API
    translated_texts, \* data['translations']
    idx,              \* position of the zip() loop of step 4
    mstep,            \* number of metadata assignments done in step 5
    output,           \* what args.output_file holds
    exitStatus,       \* the status of the process, -1 while it runs
    stderr,           \* the diagnostics printed to sys.stderr, in order
    loaded,           \* history: the catalog as polib.pofile returned it
    calls             \* history: how many times each external operation ran

vars == <<pc, api_key, language, entries, metadata, source_texts,
          response_content, translated_texts, idx, mstep, output,
          exitStatus, stderr, loaded, calls>>

----------------------------------------------------------------------------
(* Bounds of the model *)

\* the largest number of entries of an input catalog
MaxEntries == 2
\* the largest number of flags a catalog carries, over all its entries
MaxFlags == 2

----------------------------------------------------------------------------
(* Python values *)

PyNone == [kind |-> "null"]
PyNum == [kind |-> "num", n |-> 7]
PyBool == [kind |-> "bool", b |-> TRUE]
PyStr(s) == [kind |-> "str", s |-> s]
PyList(items) == [kind |-> "list", items |-> items]
PyDict(fields) == [kind |-> "dict", fields |-> fields]

EmptyMap == [k \in {} |-> PyNone]

\* 'translations' in <a str>: the substring test, over the strings the
\* model draws
HasSubstring(key, s) ==
    \/ s = key
    \/ key = "translations" /\ s = "my translations"

\* key in data: membership for a dict, a list, a str; a TypeError for the
\* values that are not iterable
PyIn(key, data) ==
    CASE data.kind = "dict" -> IF key \in DOMAIN data.fields THEN "True" ELSE "False"
      [] data.kind = "list" ->
            IF \E i \in 1..Len(data.items) : data.items[i] = PyStr(key)
            THEN "True" ELSE "False"
      [] data.kind = "str" -> IF HasSubstring(key, data.s) THEN "True" ELSE "False"
      [] OTHER -> "TypeError"

\* data[key] with a str key: only a dict can be indexed so
PyGetItemRaises(data) == data.kind # "dict"

\* not v, for the values os.getenv returns
Falsy(v) == v.kind = "null" \/ (v.kind = "str" /\ v.s = "")

----------------------------------------------------------------------------
(* Program constants *)

LANG_MAP == ("fr" :> "French") @@ ("de" :> "German")

LangName(code) == IF code \in DOMAIN LANG_MAP THEN LANG_MAP[code] ELSE code

DefaultProject == "koreader-assistant"

----------------------------------------------------------------------------
(* The inputs of a run *)

ApiKeys == {PyNone, PyStr(""), PyStr("sk-test")}

Languages == {"fr", "xx"}

MsgIds == <<"Hello", "Goodbye">>

Flags == {"fuzzy", "c-format"}

FlagLists == UNION {[1..n -> Flags] : n \in 0..MaxFlags}

\* entry i of an input catalog: untranslated, or fuzzy with a stale msgstr
InputEntry(i, flags) ==
    [msgid |-> MsgIds[((i - 1) % Len(MsgIds)) + 1],
     msgstr |-> IF \E j \in 1..Len(flags) : flags[j] = "fuzzy"
                THEN PyStr("stale") ELSE PyStr(""),
     flags |-> flags]

RECURSIVE TotalFlags(_)
TotalFlags(fs) == IF fs = <<>> THEN 0 ELSE Len(Head(fs)) + TotalFlags(Tail(fs))

InputEntries ==
    UNION {{[i \in 1..n |-> InputEntry(i, fs[i])] :
               fs \in {f \in [1..n -> FlagLists] : TotalFlags(f) <= MaxFlags}} :
           n \in 0..MaxEntries}

OldHeader ==
    ("PO-Revision-Date" :> "2020-01-01 00:00+0000") @@
    ("Last-Translator" :> "A Human") @@
    ("Language-Team" :> "none") @@
    ("Language" :> "en")

InputMetadata ==
    {[k \in {} |-> ""],
     OldHeader @@ ("Project-Id-Version" :> ""),
     OldHeader @@ ("Project-Id-Version" :> "myproject")}

\* the elements a 'translations' array may hold
Elements == {PyStr("Bonjour"), PyStr("Au revoir"), PyNone}

ElementLists(n) == UNION {[1..k -> Elements] : k \in 0..(n + 1)}

NotLists == {PyNone, PyNum, PyStr("Bonjour"), PyDict(EmptyMap)}

\* the decoded values a body that is valid JSON may hold, for a batch of n
JsonValues(n) ==
    {PyNone, PyNum, PyBool,
     PyStr("Bonjour"), PyStr("translations"), PyStr("my translations"),
     PyList(<<>>), PyList(<<PyStr("Bonjour")>>), PyList(<<PyStr("translations")>>),
     PyDict(EmptyMap), PyDict("other" :> PyList(<<PyStr("Bonjour")>>))}
    \cup {PyDict("translations" :> v) : v \in NotLists}
    \cup {PyDict("translations" :> PyList(l)) : l \in ElementLists(n)}

\* before the API answered
NoBody == [received |-> FALSE, valid |-> FALSE, value |-> PyNone]

\* a body that is no JSON text
NotJson == [received |-> TRUE, valid |-> FALSE, value |-> PyNone]

Bodies(n) ==
    {NotJson} \cup {[received |-> TRUE, valid |-> TRUE, value |-> v] : v \in JsonValues(n)}

NoOutput == [kind |-> "absent", entries |-> <<>>, metadata |-> [k \in {} |-> ""]]
EmptyFile == [kind |-> "empty", entries |-> <<>>, metadata |-> [k \in {} |-> ""]]
SavedCatalog(es, md) == [kind |-> "catalog", entries |-> es, metadata |-> md]

NoCalls == [read |-> 0, api |-> 0, save |-> 0, write |-> 0]

Init ==
    /\ pc = "config"
    /\ api_key \in ApiKeys
    /\ language \in Languages
    /\ entries = <<>>
    /\ metadata = [k \in {} |-> ""]
    /\ source_texts = <<>>
    /\ response_content = NoBody
    /\ translated_texts = <<>>
    /\ idx = 1
    /\ mstep = 0
    /\ output = NoOutput
    /\ exitStatus = -1
    /\ stderr = <<>>
    /\ loaded = [read |-> FALSE, entries |-> <<>>, metadata |-> [k \in {} |-> ""]]
    /\ calls = NoCalls

----------------------------------------------------------------------------
(* The steps of main() *)

\* sys.exit(status) after printing msgs to sys.stderr; an exception nothing
\* catches ends the process the same way, with a traceback and status 1
Exit(status, msgs) ==
    /\ pc' = "exit"
    /\ exitStatus' = status
    /\ stderr' = stderr \o msgs

Count(op) == [calls EXCEPT ![op] = @ + 1]

\* a mutation of MissingKey: the test 'api_key is None'
MissingKeyNoneOnly(k) == k.kind = "null"

\* line 73: not api_key
MissingKey(k) == Falsy(k)

\* step 1, lines 68-78
LoadConfiguration ==
    /\ pc = "config"
    /\ IF MissingKey(api_key)
       THEN Exit(1, <<"Error: OPENAI_API_KEY environment variable is not set.">>)
       ELSE pc' = "read" /\ UNCHANGED <<exitStatus, stderr>>
    /\ UNCHANGED <<api_key, language, entries, metadata, source_texts,
                   response_content, translated_texts, idx, mstep, output,
                   loaded, calls>>

\* step 2, lines 80-85: polib.pofile returns a catalog, raises an OSError
\* (caught) or raises something else (not caught)
ReadPoFile ==
    /\ pc = "read"
    /\ calls' = Count("read")
    /\ \/ \E es \in InputEntries, md \in InputMetadata :
             /\ entries' = es
             /\ metadata' = md
             /\ loaded' = [read |-> TRUE, entries |-> es, metadata |-> md]
             /\ pc' = "entries"
             /\ UNCHANGED <<exitStatus, stderr>>
       \/ /\ Exit(1, <<"Error: Cannot read input file">>)
          /\ UNCHANGED <<entries, metadata, loaded>>
       \/ /\ Exit(1, <<"Traceback">>)
          /\ UNCHANGED <<entries, metadata, loaded>>
    /\ UNCHANGED <<api_key, language, source_texts, response_content,
                   translated_texts, idx, mstep, output>>

\* a mutation of NoEntries: no short cut for the empty catalog
NoEntriesNever(es) == FALSE

\* line 90: not entries_to_translate
NoEntries(es) == Len(es) = 0

\* lines 88-97: the empty catalog ends the run with an empty output file,
\* unless open() raises, which nothing catches
CheckEntries ==
    /\ pc = "entries"
    /\ IF NoEntries(entries)
       THEN \/ /\ output' = EmptyFile
               /\ calls' = Count("write")
               /\ Exit(0, <<>>)
            \/ /\ Exit(1, <<"Traceback">>)
               /\ UNCHANGED <<output, calls>>
            /\ UNCHANGED source_texts
       ELSE /\ source_texts' = [i \in 1..Len(entries) |-> entries[i].msgid]
            /\ pc' = "request"
            /\ UNCHANGED <<output, calls, exitStatus, stderr>>
    /\ UNCHANGED <<api_key, language, entries, metadata, response_content,
                   translated_texts, idx, mstep, loaded>>

\* lines 100-116 and 130-135: one request carrying the whole batch; it
\* answers with a body, raises an APIError, or raises something else
CallApi ==
    /\ pc = "request"
    /\ calls' = Count("api")
    /\ \/ \E body \in Bodies(Len(source_texts)) :
             /\ response_content' = body
             /\ pc' = "parse"
             /\ UNCHANGED <<exitStatus, stderr>>
       \/ /\ Exit(1, <<"Error: An API error occurred">>)
          /\ UNCHANGED response_content
       \/ /\ Exit(1, <<"An unexpected error occurred">>)
          /\ UNCHANGED response_content
    /\ UNCHANGED <<api_key, language, entries, metadata, source_texts,
                   translated_texts, idx, mstep, output, loaded>>

\* lines 119-122: what the inner try block ends with
ParseResult(body) ==
    IF ~body.valid
    THEN [exc |-> "JSONDecodeError", translations |-> <<>>]
    ELSE LET data == body.value
             has == PyIn("translations", data)
         IN  CASE has = "TypeError" -> [exc |-> "TypeError", translations |-> <<>>]
               [] has = "False" -> [exc |-> "ValueError", translations |-> <<>>]
               [] OTHER ->
                    IF PyGetItemRaises(data)
                    THEN [exc |-> "TypeError", translations |-> <<>>]
                    ELSE IF data.fields["translations"].kind # "list"
                    THEN [exc |-> "ValueError", translations |-> <<>>]
                    ELSE [exc |-> "none",
                          translations |-> data.fields["translations"].items]

\* lines 118-137: the inner handler catches JSONDecodeError and ValueError,
\* the outer one (line 133) every other exception
ParseResponse ==
    /\ pc = "parse"
    /\ LET r == ParseResult(response_content)
       IN  CASE r.exc = "none" ->
                   /\ translated_texts' = r.translations
                   /\ pc' = "validate"
                   /\ UNCHANGED <<exitStatus, stderr>>
             [] r.exc \in {"JSONDecodeError", "ValueError"} ->
                   /\ Exit(1, <<"Error: Could not decode or parse the AI's response.",
                                "Details", "--- Raw AI Response ---", "response_content">>)
                   /\ UNCHANGED translated_texts
             [] OTHER ->
                   /\ Exit(1, <<"An unexpected error occurred">>)
                   /\ UNCHANGED translated_texts
    /\ UNCHANGED <<api_key, language, entries, metadata, source_texts,
                   response_content, idx, mstep, output, loaded, calls>>

\* a mutation of CountMismatch: a longer answer is let through
CountMismatchShorter(ts, ss) == Len(ts) < Len(ss)

\* line 140
CountMismatch(ts, ss) == Len(ts) # Len(ss)

\* lines 139-143
ValidateCount ==
    /\ pc = "validate"
    /\ IF CountMismatch(translated_texts, source_texts)
       THEN Exit(1, <<"Error: Mismatch in translation count.", "Expected, but received">>)
       ELSE pc' = "update" /\ UNCHANGED <<exitStatus, stderr>>
    /\ UNCHANGED <<api_key, language, entries, metadata, source_texts,
                   response_content, translated_texts, idx, mstep, output,
                   loaded, calls>>

\* x in s, for a list
Member(x, s) == \E j \in 1..Len(s) : s[j] = x

\* list.remove(x): the list without its first x
RemoveFirst(s, x) ==
    LET first == CHOOSE j \in 1..Len(s) : s[j] = x /\ \A k \in 1..(j - 1) : s[k] # x
    IN  SubSeq(s, 1, first - 1) \o SubSeq(s, first + 1, Len(s))

\* a mutation of ApplyTranslation: a msgstr that is not empty is kept
ApplyTranslationIfEmpty(entry, translation) ==
    [entry EXCEPT !.msgstr = IF @ = PyStr("") THEN translation ELSE @,
                  !.flags = IF Member("fuzzy", @) THEN RemoveFirst(@, "fuzzy") ELSE @]

\* lines 146-149: the body of the loop, on one (entry, translation) pair
ApplyTranslation(entry, translation) ==
    [entry EXCEPT !.msgstr = translation,
                  !.flags = IF Member("fuzzy", @) THEN RemoveFirst(@, "fuzzy") ELSE @]

\* a mutation of ZipExhausted: the loop stops one pair early
ZipExhaustedEarly(i, es, ts) ==
    i >= (IF Len(es) <= Len(ts) THEN Len(es) ELSE Len(ts))

\* line 145: zip() stops with the shorter of its two arguments
ZipExhausted(i, es, ts) ==
    i > (IF Len(es) <= Len(ts) THEN Len(es) ELSE Len(ts))

\* lines 145-149: one turn of the loop
UpdateEntry ==
    /\ pc = "update"
    /\ ~ZipExhausted(idx, entries, translated_texts)
    /\ entries' = [entries EXCEPT
                      ![idx] = ApplyTranslation(@, translated_texts[idx])]
    /\ idx' = idx + 1
    /\ UNCHANGED <<pc, api_key, language, metadata, source_texts,
                   response_content, translated_texts, mstep, output,
                   exitStatus, stderr, loaded, calls>>

\* line 145: the loop ends
UpdateDone ==
    /\ pc = "update"
    /\ ZipExhausted(idx, entries, translated_texts)
    /\ pc' = "metadata"
    /\ UNCHANGED <<api_key, language, entries, metadata, source_texts,
                   response_content, translated_texts, idx, mstep, output,
                   exitStatus, stderr, loaded, calls>>

\* metadata[key] = value
Put(md, key, value) ==
    [k \in DOMAIN md \cup {key} |-> IF k = key THEN value ELSE md[k]]

\* line 155: the local time of the run, formatted
now_str == "2026-01-01 12:00+0100"

\* line 156, with OPENAI_MODEL unset
translator_str == "AI Translator (gpt-5-nano)"

\* a mutation of NeedsDefaultProject: the default is always written
NeedsDefaultProjectAlways(md) == TRUE

\* line 164
NeedsDefaultProject(md) ==
    "Project-Id-Version" \notin DOMAIN md \/ md["Project-Id-Version"] = ""

\* lines 159-165: the k-th assignment of the metadata update
MetadataAssignment(k, md, lang) ==
    CASE k = 1 -> Put(md, "PO-Revision-Date", now_str)
      [] k = 2 -> Put(md, "Last-Translator", translator_str)
      [] k = 3 -> Put(md, "Language-Team", LangName(lang))
      [] k = 4 -> Put(md, "Language", lang)
      [] OTHER -> IF NeedsDefaultProject(md)
                  THEN Put(md, "Project-Id-Version", DefaultProject)
                  ELSE md

\* the number of assignments of lines 159-165
MetadataSteps == 5

\* lines 159-165: the next assignment
UpdateMetadata ==
    /\ pc = "metadata"
    /\ mstep < MetadataSteps
    /\ metadata' = MetadataAssignment(mstep + 1, metadata, language)
    /\ mstep' = mstep + 1
    /\ UNCHANGED <<pc, api_key, language, entries, source_texts,
                   response_content, translated_texts, idx, output,
                   exitStatus, stderr, loaded, calls>>

\* line 167: the try block ends
MetadataDone ==
    /\ pc = "metadata"
    /\ mstep = MetadataSteps
    /\ pc' = "save"
    /\ UNCHANGED <<api_key, language, entries, metadata, source_texts,
                   response_content, translated_texts, idx, mstep, output,
                   exitStatus, stderr, loaded, calls>>

\* a mutation of MetadataFailure: the handler ends the run
MetadataFailureFatal ==
    /\ pc = "metadata"
    /\ Exit(1, <<"Warning: Could not update PO metadata.">>)
    /\ UNCHANGED <<api_key, language, entries, metadata, source_texts,
                   response_content, translated_texts, idx, mstep, output,
                   loaded, calls>>

\* lines 168-169: a statement of the try block raises, wherever the block is
MetadataFailure ==
    /\ pc = "metadata"
    /\ stderr' = Append(stderr, "Warning: Could not update PO metadata.")
    /\ pc' = "save"
    /\ UNCHANGED <<api_key, language, entries, metadata, source_texts,
                   response_content, translated_texts, idx, mstep, output,
                   exitStatus, loaded, calls>>

\* lines 171-179: po_file.save writes the catalog as it stands or raises,
\* for whatever reason polib or the file system has
SaveOutput ==
    /\ pc = "save"
    /\ \/ /\ output' = SavedCatalog(entries, metadata)
          /\ calls' = [calls EXCEPT !.save = @ + 1, !.write = @ + 1]
          /\ Exit(0, <<>>)
       \/ /\ calls' = Count("save")
          /\ Exit(1, <<"Error: Failed to save the output file">>)
          /\ UNCHANGED output
    /\ UNCHANGED <<api_key, language, entries, metadata, source_texts,
                   response_content, translated_texts, idx, mstep, loaded>>

Next ==
    \/ LoadConfiguration
    \/ ReadPoFile
    \/ CheckEntries
    \/ CallApi
    \/ ParseResponse
    \/ ValidateCount
    \/ UpdateEntry
    \/ UpdateDone
    \/ UpdateMetadata
    \/ MetadataDone
    \/ MetadataFailure
    \/ SaveOutput

Spec == Init /\ [][Next]_vars

----------------------------------------------------------------------------
(* Vocabulary of the properties *)

Ended == pc = "exit"

\* the body is JSON text of an object whose 'translations' field is an array
HoldsTranslationsArray(body) ==
    /\ body.received
    /\ body.valid
    /\ body.value.kind = "dict"
    /\ "translations" \in DOMAIN body.value.fields
    /\ body.value.fields["translations"].kind = "list"

ArrayOf(body) == body.value.fields["translations"].items

ParseDiagnostic ==
    <<"Error: Could not decode or parse the AI's response.",
      "Details", "--- Raw AI Response ---", "response_content">>

CountDiagnostic ==
    <<"Error: Mismatch in translation count.", "Expected, but received">>

MetadataWarning == "Warning: Could not update PO metadata."

Warnings == Len(SelectSeq(stderr, LAMBDA m : m = MetadataWarning))

NotFuzzy(f) == f # "fuzzy"

\* the run ended with status 0 after saving a translated catalog
Translated == Ended /\ exitStatus = 0 /\ output.kind = "catalog"

----------------------------------------------------------------------------
(* C1 *)

\* C1: when the answer holds a 'translations' array whose length is not the
\* number of source strings, the run goes from the parse to the count check
\* and ends there with status 1 and the count-mismatch diagnostic; no entry
\* is changed and the output file is never written.
C1_CountMismatchIsFatal ==
    (/\ HoldsTranslationsArray(response_content)
     /\ Len(ArrayOf(response_content)) # Len(loaded.entries))
    => /\ pc \in {"parse", "validate", "exit"}
       /\ Ended => exitStatus = 1 /\ stderr = CountDiagnostic
       /\ entries = loaded.entries
       /\ output = NoOutput
       /\ calls.write = 0 /\ calls.save = 0

C1_Witness ==
    /\ Ended
    /\ stderr = CountDiagnostic
    /\ Len(ArrayOf(response_content)) > Len(loaded.entries)
    /\ \E i \in 1..Len(loaded.entries) : Member("fuzzy", loaded.entries[i].flags)

----------------------------------------------------------------------------
(* C2 *)

\* C2: every body that is not JSON, or is JSON without a 'translations'
\* array, ends the run with status 1 through the parse-failure diagnostic
\* followed by the raw body, and through no other error path.
C2_BadBodyTakesParsePath ==
    (Ended /\ response_content.received
           /\ ~HoldsTranslationsArray(response_content))
    => exitStatus = 1 /\ stderr = ParseDiagnostic

----------------------------------------------------------------------------
(* C3 *)

\* C3 as stated: with a catalog of zero entries the run ends with status 0
\* and an empty output file, the API is never called, and neither the entry
\* update, the metadata update nor po_file.save runs.
C3_EmptyCatalogAlwaysSucceeds ==
    (loaded.read /\ Len(loaded.entries) = 0)
    => /\ pc \in {"entries", "exit"}
       /\ calls.api = 0 /\ calls.save = 0
       /\ entries = loaded.entries /\ metadata = loaded.metadata
       /\ Ended => exitStatus = 0 /\ output = EmptyFile

\* C3, amended: with a catalog of zero entries the API is never called and
\* neither update nor po_file.save runs; the run ends with status 0 and an
\* empty output file when the file can be created, and with an uncaught
\* exception, status 1 and no output file when it cannot.
C3_EmptyCatalogShortCircuits ==
    (loaded.read /\ Len(loaded.entries) = 0)
    => /\ pc \in {"entries", "exit"}
       /\ calls.api = 0 /\ calls.save = 0
       /\ entries = loaded.entries /\ metadata = loaded.metadata
       /\ Ended => \/ exitStatus = 0 /\ output = EmptyFile /\ stderr = <<>>
                   \/ exitStatus = 1 /\ output = NoOutput /\ stderr = <<"Traceback">>

C3_Witness ==
    /\ loaded.read /\ Len(loaded.entries) = 0
    /\ Ended /\ exitStatus = 0 /\ output = EmptyFile

----------------------------------------------------------------------------
(* C4 *)

\* C4: when OPENAI_API_KEY is unset or empty the run ends with status 1
\* without reading the input file, calling the API or writing the output.
C4_MissingKeyStopsFirst ==
    (api_key = PyNone \/ api_key = PyStr(""))
    => /\ pc \in {"config", "exit"}
       /\ Ended => /\ exitStatus = 1
                   /\ stderr = <<"Error: OPENAI_API_KEY environment variable is not set.">>
       /\ calls = NoCalls
       /\ ~loaded.read
       /\ output = NoOutput

C4_Witness == Ended /\ api_key = PyStr("") /\ exitStatus = 1

----------------------------------------------------------------------------
(* C5 *)

\* C5: the batch sent to the API is the msgids of the entries in order, and
\* a run that succeeds on a non-empty catalog saves as many entries as it
\* loaded, in the same order, each with its msgid and with the element of
\* the answer at its index as msgstr.
C5_PositionalCorrespondence ==
    /\ calls.api > 0 =>
          source_texts = [i \in 1..Len(loaded.entries) |-> loaded.entries[i].msgid]
    /\ (Ended /\ exitStatus = 0 /\ Len(loaded.entries) > 0) =>
          /\ output.kind = "catalog"
          /\ HoldsTranslationsArray(response_content)
          /\ Len(output.entries) = Len(loaded.entries)
          /\ Len(ArrayOf(response_content)) = Len(loaded.entries)
          /\ \A i \in 1..Len(loaded.entries) :
                /\ output.entries[i].msgid = loaded.entries[i].msgid
                /\ output.entries[i].msgstr = ArrayOf(response_content)[i]

C5_Witness ==
    /\ Translated
    /\ Len(output.entries) = 2
    /\ output.entries[1].msgstr = PyStr("Au revoir")
    /\ output.entries[2].msgstr = PyStr("Bonjour")
    /\ loaded.entries[1].msgstr = PyStr("stale")

----------------------------------------------------------------------------
(* C6 *)

\* C6: after a successful translation no entry has 'fuzzy' among its flags,
\* whatever flags it was loaded with, and its other flags are kept, in order.
C6_FuzzyCleared ==
    Translated =>
        \A i \in 1..Len(output.entries) :
            /\ ~Member("fuzzy", output.entries[i].flags)
            /\ output.entries[i].flags = SelectSeq(loaded.entries[i].flags, NotFuzzy)

----------------------------------------------------------------------------
(* C7 *)

\* C7: once the run is past the validation of the answer, every element of
\* the translated sequence is a string, and so is every msgstr assigned.
C7_TranslationsAreStrings ==
    (pc \in {"update", "metadata", "save"} \/ Translated)
    => /\ \A i \in 1..Len(translated_texts) : translated_texts[i].kind = "str"
       /\ \A i \in 1..Len(entries) : entries[i].msgstr.kind = "str"

----------------------------------------------------------------------------
(* C8 *)

\* C8: wherever the metadata update fails, the run warns once and goes on
\* to the save, which it attempts exactly once; a save that succeeds stores
\* every translated msgstr and ends the run with status 0.
C8_MetadataFailureNotFatal ==
    Warnings > 0
    => /\ Warnings = 1
       /\ pc \in {"save", "exit"}
       /\ pc = "save" => calls.save = 0
       /\ Ended =>
            /\ calls.save = 1
            /\ \/ /\ exitStatus = 0
                  /\ output.kind = "catalog"
                  /\ Len(output.entries) = Len(translated_texts)
                  /\ \A i \in 1..Len(translated_texts) :
                        output.entries[i].msgstr = translated_texts[i]
               \/ /\ exitStatus = 1
                  /\ output = NoOutput
                  /\ stderr[Len(stderr)] = "Error: Failed to save the output file"

C8_Witness ==
    /\ Warnings = 1
    /\ Translated
    /\ mstep = 2
    /\ Len(output.entries) = 2

----------------------------------------------------------------------------
(* C9 *)

ProjectOnLoad ==
    IF "Project-Id-Version" \in DOMAIN loaded.metadata
    THEN loaded.metadata["Project-Id-Version"] ELSE ""

\* C9: a Project-Id-Version that is not empty on load is never changed; a
\* completed metadata update has set it to 'koreader-assistant' exactly
\* when it was absent or empty on load, and has overwritten
\* PO-Revision-Date, Last-Translator, Language-Team and Language.
C9_ProjectIdDefaultOnly ==
    /\ (loaded.read /\ ProjectOnLoad # "") =>
          metadata["Project-Id-Version"] = ProjectOnLoad
    /\ mstep = MetadataSteps =>
          /\ metadata["Project-Id-Version"] =
                (IF ProjectOnLoad = "" THEN "koreader-assistant" ELSE ProjectOnLoad)
          /\ metadata["PO-Revision-Date"] = now_str
          /\ metadata["Last-Translator"] = translator_str
          /\ metadata["Language-Team"] = LangName(language)
          /\ metadata["Language"] = language
          /\ DOMAIN metadata = {"Project-Id-Version", "PO-Revision-Date",
                                "Last-Translator", "Language-Team", "Language"}

C9_Witness ==
    /\ mstep = MetadataSteps
    /\ ProjectOnLoad = "myproject"
    /\ "Language" \in DOMAIN loaded.metadata
    /\ loaded.metadata["Language"] # metadata["Language"]

----------------------------------------------------------------------------
(* C10 *)

\* C10: the output path is written at most once in a run, and only when
\* the catalog is empty or the answer has been validated and every entry
\* holds its translation; every run that ends with status 1 leaves the
\* output path unwritten.
C10_WriteOnlyWhenComplete ==
    /\ calls.write <= 1
    /\ (calls.write = 0) <=> (output = NoOutput)
    /\ (Ended /\ exitStatus = 1) => output = NoOutput
    /\ calls.write = 1 =>
          \/ /\ Len(loaded.entries) = 0
             /\ output = EmptyFile
          \/ /\ Len(loaded.entries) > 0
             /\ HoldsTranslationsArray(response_content)
             /\ translated_texts = ArrayOf(response_content)
             /\ Len(translated_texts) = Len(loaded.entries)
             /\ output = SavedCatalog(entries, metadata)
             /\ \A i \in 1..Len(entries) : entries[i].msgstr = translated_texts[i]

C10_Witness ==
    /\ calls.write = 1
    /\ output.kind = "catalog"
    /\ Len(output.entries) = 2
    /\ calls.api = 1

====
